---- MODULE Spec2Model ----
(***************************************************************************)
(* Model of onnxruntime/python/tools/quantization/calibrate.py:            *)
(* augment_graph, get_intermediate_outputs, calculate_scale_zeropoint,     *)
(* calculate_quantization_params and the pipeline of main.                 *)
(*                                                                         *)
(* Names (Python str) are sequences of tokens.  Every token is one         *)
(* character, except "ReduceMin" and "ReduceMax", which stand for those    *)
(* nine characters (none of them an underscore), so that concatenation is  *)
(* \o and rpartition('_') is a split at the last "_" token.                *)
(* Numbers are integers standing for the floats of the same value; a scale *)
(* is the exact fraction <<numerator, denominator>>.                       *)
(***************************************************************************)
EXTENDS Integers, Sequences, FiniteSets, TLC

VARIABLES pc, model_path, original_graph, model_file, model, augmented_model, calib_mode, inputs,
          intermediate_outputs, final_dict, error,
          nbits, quantization_thresholds, quantization_params,
          next_node, rmin, rmax, zp_and_scale

vars == <<pc, model_path, original_graph, model_file, model, augmented_model, calib_mode, inputs,
          intermediate_outputs, final_dict, error,
          nbits, quantization_thresholds, quantization_params,
          next_node, rmin, rmax, zp_and_scale>>

----------------------------------------------------------------------------
(* Bounds of the explored inputs *)

MaxNodes == 2

MaxOutputs == 2

MaxSamples == 2

MaxParamNodes == 2

----------------------------------------------------------------------------
(* Names *)

SuffixMin == <<"_", "ReduceMin">>

SuffixMax == <<"_", "ReduceMax">>

NameA == <<"a">>

NameB == <<"b">>

NameC == <<"c">>

NameAMin == NameA \o SuffixMin

Min2(x, y) == IF x <= y THEN x ELSE y

Max2(x, y) == IF x >= y THEN x ELSE y

RECURSIVE SeqsUpTo(_, _)
(* all sequences over S of length 0..n *)
SeqsUpTo(S, n) ==
  IF n = 0 THEN {<<>>}
  ELSE LET shorter == SeqsUpTo(S, n - 1)
       IN  shorter \cup {Append(s, x) : s \in {t \in shorter : Len(t) = n - 1}, x \in S}

----------------------------------------------------------------------------
(* Graphs: a ModelProto's graph is [node, output]; a NodeProto is          *)
(* [op_type, name, input, output, attribute].                              *)

MakeNode(op, ins, outs, nm, attrs) ==
  [op_type |-> op, name |-> nm, input |-> ins, output |-> outs, attribute |-> attrs]

NoGraph == [node |-> <<>>, output |-> <<>>]

quantization_candidates == {"Conv", "MatMul"}

(* variant of ProbeNodes that appends the ReduceMax probe before the ReduceMin probe *)
ProbeNodes_MaxFirst(node) ==
  LET input_name == node.output[1]
      reduce_min_node == MakeNode("ReduceMin", <<input_name>>, <<input_name \o SuffixMin>>,
                                  node.name \o SuffixMin, <<[name |-> "keepdims", i |-> 0]>>)
      reduce_max_node == MakeNode("ReduceMax", <<input_name>>, <<input_name \o SuffixMax>>,
                                  node.name \o SuffixMax, <<[name |-> "keepdims", i |-> 0]>>)
  IN  <<reduce_max_node, reduce_min_node>>

(* lines 38-51: the two probe nodes built for one candidate node *)
ProbeNodes(node) ==
  LET input_name == node.output[1]
      reduce_min_node == MakeNode("ReduceMin", <<input_name>>, <<input_name \o SuffixMin>>,
                                  node.name \o SuffixMin, <<[name |-> "keepdims", i |-> 0]>>)
      reduce_max_node == MakeNode("ReduceMax", <<input_name>>, <<input_name \o SuffixMax>>,
                                  node.name \o SuffixMax, <<[name |-> "keepdims", i |-> 0]>>)
  IN  <<reduce_min_node, reduce_max_node>>

RECURSIVE AddedNodes(_)
(* lines 34-51: added_nodes after the loop over the node list *)
AddedNodes(nodes) ==
  IF nodes = <<>> THEN <<>>
  ELSE LET node == Head(nodes)
       IN  (IF node.op_type \in quantization_candidates THEN ProbeNodes(node) ELSE <<>>)
             \o AddedNodes(Tail(nodes))

(* lines 44, 51: added_outputs holds one value info per added node, named by its output *)
AddedOutputs(added_nodes) == [k \in 1..Len(added_nodes) |-> added_nodes[k].output[1]]

(* lines 24-54: the graph object after the call (the argument itself is extended) *)
augment_graph(m) ==
  LET added_nodes == AddedNodes(m.node)
  IN  [node |-> m.node \o added_nodes, output |-> m.output \o AddedOutputs(added_nodes)]

----------------------------------------------------------------------------
(* Specification of augment_graph on arbitrary graphs *)

AugOps == {"Conv", "MatMul", "Relu"}

AugNodeNames == {<<>>, <<"n">>}

AugNodeOutputs == {<<NameA>>, <<NameB, NameC>>, <<NameAMin>>}

AugGraphOutputs == {NameA, NameAMin}

AugNodeSet == {MakeNode(op, <<<<"x">>>>, outs, nm, <<>>) :
                 op \in AugOps, outs \in AugNodeOutputs, nm \in AugNodeNames}

AugGraphs == {[node |-> ns, output |-> os] :
                ns \in SeqsUpTo(AugNodeSet, MaxNodes), os \in SeqsUpTo(AugGraphOutputs, MaxOutputs)}

IdleCollect ==
  /\ calib_mode = "naive" /\ inputs = <<>> /\ intermediate_outputs = <<>>
  /\ final_dict = <<>>

IdleParams ==
  /\ nbits = 8 /\ quantization_thresholds = [given |-> FALSE, map |-> <<>>]
  /\ quantization_params = <<>>

IdleScale ==
  /\ next_node = MakeNode("None", <<>>, <<>>, <<>>, <<>>)
  /\ rmin = 0 /\ rmax = 0 /\ zp_and_scale = <<0, <<1, 1>>>>

IdleGraph ==
  /\ model_path = "model.onnx" /\ original_graph = NoGraph
  /\ model_file = NoGraph /\ model = NoGraph /\ augmented_model = NoGraph

InitAugment ==
  /\ pc = "loaded"
  /\ model_path = "model.onnx"
  /\ model_file \in AugGraphs
  /\ original_graph = model_file
  /\ model = model_file
  /\ augmented_model = NoGraph
  /\ error = "none"
  /\ IdleCollect /\ IdleParams /\ IdleScale

(* augmented_model = augment_graph(model) (line 211 as a call on its own): both names *)
(* denote the one extended object                                                     *)
AugmentGraph ==
  /\ pc = "loaded"
  /\ model' = augment_graph(model)
  /\ augmented_model' = model'
  /\ pc' = "augmented"
  /\ UNCHANGED <<model_path, original_graph, model_file, calib_mode, inputs, intermediate_outputs, final_dict, error,
                 nbits, quantization_thresholds, quantization_params,
                 next_node, rmin, rmax, zp_and_scale>>

NextAugment == AugmentGraph

SpecAugment == InitAugment /\ [][NextAugment]_vars

----------------------------------------------------------------------------
(* calculate_scale_zeropoint (lines 99-126) *)

(* variant of IncludeZero that leaves the observed range as it is *)
IncludeZero_NoWidening(lo, hi) == <<lo, hi>>

(* lines 103-104: the observed range widened to include zero *)
IncludeZero(lo, hi) == <<Min2(lo, 0), Max2(hi, 0)>>

(* lines 109-111: a Clip next node needs attribute[0] and attribute[1] *)
ClipAttributeError(nxt) == nxt.op_type = "Clip" /\ Len(nxt.attribute) < 2

(* lines 109-115: attribute[0].f is taken as clip_min, attribute[1].f as clip_max *)
ClipAdjust(nxt, r) ==
  IF nxt.op_type = "Clip"
  THEN LET clip_min == nxt.attribute[1].f
           clip_max == nxt.attribute[2].f
       IN  <<IF r[1] < clip_min THEN clip_min ELSE r[1],
             IF r[2] > clip_max THEN clip_max ELSE r[2]>>
  ELSE r

(* lines 116-118 *)
ReluAdjust(nxt, r) ==
  IF nxt.op_type = "Relu" /\ r[1] < 0 THEN <<0, r[2]>> ELSE r

(* lines 103-118: the range from which scale and zero_point are derived *)
AdjustedRange(nxt, lo, hi) == ReluAdjust(nxt, ClipAdjust(nxt, IncludeZero(lo, hi)))

(* line 120: scale as the fraction <<numerator, denominator>> *)
ScaleOf(r) == IF r[1] # r[2] THEN <<r[2] - r[1], 255>> ELSE <<1, 1>>

RECURSIVE BitLen(_)
(* number of binary digits of n >= 0 *)
BitLen(n) == IF n = 0 THEN 0 ELSE 1 + BitLen(n \div 2)

RECURSIVE Pow2(_)
Pow2(n) == IF n = 0 THEN 1 ELSE 2 * Pow2(n - 1)

(* line 120, np.float32(...): the sign of float32(k/den) - k/den for k > 0.  A   *)
(* scale of 1 and a multiple of 255 over 255 are exact.  Otherwise k/255 is      *)
(* a + r/255 with 0 < r < 255, and the binary expansion of r/255 repeats the     *)
(* eight bits of r; what the 24-bit mantissa cuts off is those eight bits        *)
(* rotated to the cut position, over 255, and the scale is rounded up exactly    *)
(* when that is above one half.                                                  *)
Float32Direction(k, den) ==
  IF den = 1 \/ k % 255 = 0 THEN 0
  ELSE LET a == k \div 255
           r == k % 255
           s == IF a = 0 THEN 8 - BitLen(r) ELSE (24 - BitLen(a)) % 8
           rot == ((r * Pow2(s)) % 256) + (r \div Pow2(8 - s))
       IN  IF rot >= 128 THEN 1 ELSE -1

(* line 122, round(...) of the float64 quotient of line 121, for q > 0, p >= 0,  *)
(* the exact quotient being p/q and dir the direction in which the float32 scale *)
(* was rounded.  Python's round() takes an exact half to the even neighbour; a   *)
(* quotient that is half-way in exact arithmetic is just below half-way in the   *)
(* code when the scale was rounded up and just above when it was rounded down.   *)
(* (The quotient is taken in float64, as NumPy 1.x promotes a Python float       *)
(* divided by a float32 scalar; magnitudes stay below 2^15.)                     *)
RoundQuotient(p, q, dir) ==
  LET fl == p \div q
      rem == p % q
  IN  IF 2 * rem < q THEN fl
      ELSE IF 2 * rem > q THEN fl + 1
      ELSE IF dir > 0 THEN fl
      ELSE IF dir < 0 THEN fl + 1
      ELSE IF fl % 2 = 0 THEN fl ELSE fl + 1

(* lines 121-122: uint8(round(max(0, min(255, (0 - rmin) / scale)))) *)
ZeroPoint(lo, scale) ==
  LET sgn == IF scale[1] < 0 THEN -1 ELSE 1
      p == sgn * (0 - lo) * scale[2]
      q == sgn * scale[1]
  IN  IF p <= 0 THEN 0
      ELSE IF p >= 255 * q THEN 255
      ELSE RoundQuotient(p, q, Float32Direction(q, scale[2]))

(* lines 99-126: [error, zp_and_scale]; the node argument is not read *)
calculate_scale_zeropoint(node, nxt, lo, hi) ==
  IF ClipAttributeError(nxt)
  THEN [error |-> "IndexError", zp_and_scale |-> <<0, <<1, 1>>>>]
  ELSE LET r == AdjustedRange(nxt, lo, hi)
           scale == ScaleOf(r)
       IN  [error |-> "none", zp_and_scale |-> <<ZeroPoint(r[1], scale), scale>>]

----------------------------------------------------------------------------
(* calculate_quantization_params (lines 128-164) *)

DictPut(d, k, v) == [x \in (DOMAIN d) \cup {k} |-> IF x = k THEN v ELSE d[x]]

RECURSIVE QuantizationParamsLoop(_, _, _, _)
(* lines 157-162: the loop from position index on, with the entries made so far *)
QuantizationParamsLoop(nodes, thresholds, index, acc) ==
  IF index > Len(nodes) THEN [error |-> "none", params |-> acc]
  ELSE LET node_output_name == nodes[index].output[1]
       IN  IF node_output_name \in DOMAIN thresholds
           THEN IF index + 1 > Len(nodes)
                THEN [error |-> "IndexError", params |-> <<>>]
                ELSE LET node_thresholds == thresholds[node_output_name]
                         res == calculate_scale_zeropoint(nodes[index], nodes[index + 1],
                                                          node_thresholds[1], node_thresholds[2])
                     IN  IF res.error # "none"
                         THEN [error |-> res.error, params |-> <<>>]
                         ELSE QuantizationParamsLoop(nodes, thresholds, index + 1,
                                                     DictPut(acc, node_output_name, res.zp_and_scale))
           ELSE QuantizationParamsLoop(nodes, thresholds, index + 1, acc)

(* lines 150-164; thresholds is [given, map], given = FALSE standing for None *)
calculate_quantization_params(m, bits, thresholds) ==
  IF bits # 8 THEN [error |-> "ValueError", params |-> <<>>]
  ELSE IF ~thresholds.given THEN [error |-> "ValueError", params |-> <<>>]
  ELSE QuantizationParamsLoop(m.node, thresholds.map, 1, <<>>)

----------------------------------------------------------------------------
(* get_intermediate_outputs (lines 57-97) *)

(* str.rpartition('_')[0]: what precedes the last underscore, '' when there is none *)
RPartitionHead(name) ==
  LET us == {i \in 1..Len(name) : name[i] = "_"}
  IN  IF us = {} THEN <<>>
      ELSE SubSeq(name, 1, (CHOOSE i \in us : \A j \in us : j <= i) - 1)

(* dict(zip(keys, vals)): one entry per distinct key, the last occurrence's value *)
DictZip(keys, vals) ==
  LET n == Min2(Len(keys), Len(vals))
  IN  [k \in {keys[i] : i \in 1..n} |->
         vals[CHOOSE i \in 1..n : keys[i] = k /\ \A j \in 1..n : keys[j] = k => j <= i]]

SeqMin(s) == CHOOSE v \in {s[i] : i \in 1..Len(s)} : \A i \in 1..Len(s) : v <= s[i]

SeqMax(s) == CHOOSE v \in {s[i] : i \in 1..Len(s)} : \A i \in 1..Len(s) : v >= s[i]

(* line 84: node_output_names[num_model_outputs:] *)
SliceFrom(s, n) == SubSeq(s, n + 1, Len(s))

(* lines 78-97, after the inference calls of line 75 have filled outs;     *)
(* names is session.get_outputs(), the outputs the session's graph declares *)
AggregateOutputs(num_model_outputs, names, outs, mode) ==
  IF Len(outs) = 0 THEN [error |-> "IndexError", final_dict |-> <<>>]
  ELSE
  LET num_inputs == Len(outs)
      node_output_names == SubSeq(names, 1, Len(outs[1]))
      output_dicts == [i \in 1..num_inputs |-> DictZip(node_output_names, outs[i])]
      keys == {node_output_names[i] : i \in 1..Len(node_output_names)}
      merged_dict == [k \in keys |-> [i \in 1..num_inputs |-> output_dicts[i][k]]]
      added_node_output_names == SliceFrom(node_output_names, num_model_outputs)
      starts == {i \in 1..Len(added_node_output_names) : i % 2 = 1}
      node_names == [j \in 1..Cardinality(starts) |->
                       RPartitionHead(added_node_output_names[2 * j - 1])]
      clean_keys == keys \ {node_output_names[1]}
      clean_merged_dict == [k \in clean_keys |-> merged_dict[k]]
      key_missing == {i \in starts : added_node_output_names[i] \notin clean_keys}
      no_partner == {i \in starts : i + 1 > Len(added_node_output_names)}
      partner_missing == {i \in starts \ no_partner :
                            added_node_output_names[i + 1] \notin clean_keys}
      failing == key_missing \cup no_partner \cup partner_missing
      first_fail == CHOOSE i \in failing : \A j \in failing : i <= j
      pairs == [j \in 1..Cardinality(starts) |->
                  <<SeqMin(clean_merged_dict[added_node_output_names[2 * j - 1]]),
                    SeqMax(clean_merged_dict[added_node_output_names[2 * j]])>>]
  IN  IF mode = "naive"
      THEN IF failing # {}
           THEN [error |-> IF first_fail \in key_missing THEN "KeyError"
                           ELSE IF first_fail \in no_partner THEN "IndexError"
                           ELSE "KeyError",
                 final_dict |-> <<>>]
           ELSE [error |-> "none", final_dict |-> DictZip(node_names, pairs)]
      ELSE [error |-> "ValueError", final_dict |-> <<>>]

----------------------------------------------------------------------------
(* The pipeline of main (lines 208-225) on well-formed graphs: every tensor *)
(* has one producer.  A calibration sample is described by what it makes    *)
(* each tensor of the graph hold: sample[t] = <<least, greatest>> element.  *)

NameX == <<"x">>

MainOps == {"Conv", "MatMul", "Relu"}

MainNodeSet == {MakeNode(op, <<NameX>>, <<t>>, <<"n">> \o t, <<>>) :
                  op \in MainOps, t \in {NameA, NameB}}

Distinct(s) == \A i, j \in 1..Len(s) : i # j => s[i] # s[j]

MainGraphs ==
  {[node |-> ns, output |-> os] :
     ns \in {q \in SeqsUpTo(MainNodeSet, MaxNodes) :
               Distinct([i \in 1..Len(q) |-> q[i].output[1]])},
     os \in {q \in SeqsUpTo({NameA, NameB, NameX}, MaxOutputs) : Distinct(q)}}

Sample1 == [t \in {NameA, NameB, NameX} |->
              IF t = NameA THEN <<-3, -1>> ELSE IF t = NameB THEN <<1, 4>> ELSE <<0, 0>>]

Sample2 == [t \in {NameA, NameB, NameX} |->
              IF t = NameA THEN <<-1, 2>> ELSE IF t = NameB THEN <<3, 3>> ELSE <<5, 5>>]

Sample3 == [t \in {NameA, NameB, NameX} |->
              IF t = NameA THEN <<0, 5>> ELSE IF t = NameB THEN <<-2, 1>> ELSE <<-7, 7>>]

Samples == {Sample1, Sample2, Sample3}

CalibModes == {"naive", "entropy"}

(* session.run([], {input_name: sample}) on graph g (line 75): one value per *)
(* declared output, in declared order; ReduceMin / ReduceMax with keepdims=0 *)
(* give the least / greatest element of their input tensor, any other       *)
(* output is the tensor itself, here its least element                      *)
SessionRunOutputs(g, sample) ==
  [k \in 1..Len(g.output) |->
     LET t == g.output[k]
         mins == {i \in 1..Len(g.node) : g.node[i].op_type = "ReduceMin" /\ g.node[i].output[1] = t}
         maxs == {i \in 1..Len(g.node) : g.node[i].op_type = "ReduceMax" /\ g.node[i].output[1] = t}
     IN  IF mins # {} THEN sample[g.node[CHOOSE i \in mins : TRUE].input[1]][1]
         ELSE IF maxs # {} THEN sample[g.node[CHOOSE i \in maxs : TRUE].input[1]][2]
         ELSE sample[t][1]]

(* line 209 *)
augmented_model_path == "augmented_model.onnx"

(* values of --model_path: a file of its own, or one naming the file of line 209 *)
ModelPaths == {"model.onnx", "augmented_model.onnx", "./augmented_model.onnx"}

(* whether path names the file that line 212 writes *)
NamesAugmentedFile(path) == path = augmented_model_path \/ path = "./augmented_model.onnx"

InitMain ==
  /\ pc = "loaded"
  /\ model_path \in ModelPaths
  /\ model_file \in MainGraphs
  /\ original_graph = model_file
  /\ model = model_file
  /\ augmented_model = NoGraph
  /\ calib_mode \in CalibModes
  /\ inputs \in SeqsUpTo(Samples, MaxSamples)
  /\ intermediate_outputs = <<>>
  /\ final_dict = <<>>
  /\ error = "none"
  /\ IdleParams /\ IdleScale

(* lines 211-212: augment_graph(model), then onnx.save(augmented_model,            *)
(* augmented_model_path), which replaces the file main loaded when model_path     *)
(* names that same file; model_file is what the file at model_path holds          *)
MainAugment ==
  /\ pc = "loaded"
  /\ model' = augment_graph(model)
  /\ augmented_model' = model'
  /\ model_file' = IF NamesAugmentedFile(model_path) THEN augmented_model' ELSE model_file
  /\ pc' = "augmented"
  /\ UNCHANGED <<model_path, original_graph, calib_mode, inputs, intermediate_outputs,
                 final_dict, error, nbits, quantization_thresholds, quantization_params,
                 next_node, rmin, rmax, zp_and_scale>>

(* line 75, one iteration: the session built from the saved augmented model runs a sample *)
SessionRun ==
  /\ pc = "augmented"
  /\ Len(intermediate_outputs) < Len(inputs)
  /\ intermediate_outputs' =
       Append(intermediate_outputs,
              SessionRunOutputs(augmented_model, inputs[Len(intermediate_outputs) + 1]))
  /\ UNCHANGED <<pc, model_path, original_graph, model_file, model, augmented_model, calib_mode, inputs, final_dict, error,
                 nbits, quantization_thresholds, quantization_params,
                 next_node, rmin, rmax, zp_and_scale>>

(* lines 71-72 and 78-97: get_intermediate_outputs(model_path, ...) once all samples ran; *)
(* line 71 loads the file at model_path again and line 72 counts its outputs          *)
Aggregate ==
  /\ pc = "augmented"
  /\ Len(intermediate_outputs) = Len(inputs)
  /\ LET res == AggregateOutputs(Len(model_file.output), augmented_model.output,
                                 intermediate_outputs, calib_mode)
     IN  /\ error' = res.error
         /\ final_dict' = res.final_dict
         /\ pc' = IF res.error = "none" THEN "aggregated" ELSE "error"
  /\ UNCHANGED <<model_path, original_graph, model_file, model, augmented_model, calib_mode, inputs, intermediate_outputs,
                 nbits, quantization_thresholds, quantization_params,
                 next_node, rmin, rmax, zp_and_scale>>

(* line 225: calculate_quantization_params(model, quantization_thresholds=dict_for_quantization) *)
MainQuantizationParams ==
  /\ pc = "aggregated"
  /\ quantization_thresholds' = [given |-> TRUE, map |-> final_dict]
  /\ LET res == calculate_quantization_params(model, nbits, quantization_thresholds')
     IN  /\ error' = res.error
         /\ quantization_params' = res.params
         /\ pc' = IF res.error = "none" THEN "done" ELSE "error"
  /\ UNCHANGED <<model_path, original_graph, model_file, model, augmented_model, calib_mode, inputs, intermediate_outputs,
                 final_dict, nbits, next_node, rmin, rmax, zp_and_scale>>

NextMain == MainAugment \/ SessionRun \/ Aggregate \/ MainQuantizationParams

SpecMain == InitMain /\ [][NextMain]_vars

----------------------------------------------------------------------------
(* calculate_scale_zeropoint called on arbitrary ranges and next nodes *)

ObservedRanges ==
  {<<-3, -2>>, <<-3, 0>>, <<-3, 5>>, <<-2, -2>>, <<-2, 5>>, <<-2, 10>>,
   <<0, 0>>, <<0, 5>>, <<2, 2>>, <<2, 10>>, <<5, 5>>, <<10, 10>>,
   <<-3, 507>>, <<-7, 503>>, <<-10, 1010>>, <<-19, 627>>}

ClipVals == {-30, -20, 0, 1, 6, 21, 31}

Attr(nm, v) == [name |-> nm, f |-> v]

(* Clip nodes with constant bounds lo <= hi, the two attributes stored in either order, *)
(* and a Clip node that carries no attributes                                          *)
ClipBounds == {b \in ClipVals \X ClipVals : b[1] <= b[2]}

ClipNodes ==
  {MakeNode("Clip", <<NameA>>, <<NameB>>, <<"c">>, <<Attr("min", b[1]), Attr("max", b[2])>>) :
     b \in ClipBounds}
    \cup {MakeNode("Clip", <<NameA>>, <<NameB>>, <<"c">>, <<Attr("max", b[2]), Attr("min", b[1])>>) :
            b \in ClipBounds}
    \cup {MakeNode("Clip", <<NameA>>, <<NameB>>, <<"c">>, <<>>)}

NextNodes ==
  ClipNodes \cup {MakeNode(op, <<NameA>>, <<NameB>>, <<"c">>, <<>>) : op \in {"Relu", "Add"}}

InitScale ==
  /\ pc = "call"
  /\ \E r \in ObservedRanges : rmin = r[1] /\ rmax = r[2]
  /\ next_node \in NextNodes
  /\ zp_and_scale = <<0, <<1, 1>>>>
  /\ error = "none"
  /\ IdleGraph /\ IdleCollect /\ IdleParams

ScaleZeropoint ==
  /\ pc = "call"
  /\ LET res == calculate_scale_zeropoint(MakeNode("Conv", <<NameX>>, <<NameA>>, <<"n">>, <<>>),
                                          next_node, rmin, rmax)
     IN  /\ error' = res.error
         /\ zp_and_scale' = res.zp_and_scale
         /\ pc' = IF res.error = "none" THEN "returned" ELSE "error"
  /\ UNCHANGED <<model_path, original_graph, model_file, model, augmented_model, calib_mode, inputs, intermediate_outputs,
                 final_dict, nbits, quantization_thresholds, quantization_params,
                 next_node, rmin, rmax>>

NextScale == ScaleZeropoint

SpecScale == InitScale /\ [][NextScale]_vars

----------------------------------------------------------------------------
(* calculate_quantization_params called on arbitrary graphs and threshold maps *)

Clip06 == <<Attr("min", 0), Attr("max", 6)>>

ParamNodeSet ==
  {MakeNode(op, <<NameX>>, <<t>>, <<"n">>, IF op = "Clip" THEN Clip06 ELSE <<>>) :
     op \in {"Conv", "Relu", "Clip"}, t \in {NameA, NameB}}

ParamGraphs == {[node |-> ns, output |-> <<>>] : ns \in SeqsUpTo(ParamNodeSet, MaxParamNodes)}

ThresholdPairs == {<<-2, 10>>, <<2, 2>>}

ThresholdMaps ==
  UNION {[ks -> ThresholdPairs] : ks \in SUBSET {NameA, NameB}}

InitParams ==
  /\ pc = "call"
  /\ model_path = "model.onnx"
  /\ model_file \in ParamGraphs
  /\ original_graph = model_file
  /\ model = model_file
  /\ augmented_model = NoGraph
  /\ nbits \in {8, 16}
  /\ quantization_thresholds \in
       {[given |-> TRUE, map |-> d] : d \in ThresholdMaps} \cup {[given |-> FALSE, map |-> <<>>]}
  /\ quantization_params = <<>>
  /\ error = "none"
  /\ IdleCollect /\ IdleScale

QuantizationParams ==
  /\ pc = "call"
  /\ LET res == calculate_quantization_params(model, nbits, quantization_thresholds)
     IN  /\ error' = res.error
         /\ quantization_params' = res.params
         /\ pc' = IF res.error = "none" THEN "returned" ELSE "error"
  /\ UNCHANGED <<model_path, original_graph, model_file, model, augmented_model, calib_mode, inputs, intermediate_outputs,
                 final_dict, nbits, quantization_thresholds, next_node, rmin, rmax, zp_and_scale>>

NextParams == QuantizationParams

SpecParams == InitParams /\ [][NextParams]_vars

----------------------------------------------------------------------------
(* Properties *)

Eligible(nodes) == {i \in 1..Len(nodes) : nodes[i].op_type = "Conv" \/ nodes[i].op_type = "MatMul"}

(* position of node i among the eligible nodes, in traversal order *)
Rank(nodes, i) == Cardinality({j \in Eligible(nodes) : j <= i})

(* C1: after augment_graph the outputs are the original outputs in order followed by   *)
(* 2*E probe outputs and the nodes are the original nodes in order followed by 2*E     *)
(* probe nodes, a (ReduceMin, ReduceMax) pair per eligible node in traversal order,    *)
(* each probe reading that node's first output; with E = 0 nothing is added.           *)
C1_AugmentAppendsProbePairs ==
  pc = "augmented" =>
    LET o == original_graph
        L == Len(o.node)
        M == Len(o.output)
        E == Cardinality(Eligible(o.node))
    IN  /\ augmented_model = model
        /\ Len(augmented_model.node) = L + 2 * E
        /\ Len(augmented_model.output) = M + 2 * E
        /\ SubSeq(augmented_model.node, 1, L) = o.node
        /\ SubSeq(augmented_model.output, 1, M) = o.output
        /\ \A i \in Eligible(o.node) :
             LET k == Rank(o.node, i)
                 mn == augmented_model.node[L + 2 * k - 1]
                 mx == augmented_model.node[L + 2 * k]
             IN  /\ mn.op_type = "ReduceMin" /\ mx.op_type = "ReduceMax"
                 /\ mn.input = <<o.node[i].output[1]>>
                 /\ mx.input = <<o.node[i].output[1]>>
                 /\ augmented_model.output[M + 2 * k - 1] = mn.output[1]
                 /\ augmented_model.output[M + 2 * k] = mx.output[1]
        /\ (E = 0 => augmented_model = o)

(* C1 witness: a graph with two eligible nodes and a declared output has been augmented *)
C1_Witness ==
  /\ pc = "augmented"
  /\ Cardinality(Eligible(original_graph.node)) = 2
  /\ Len(original_graph.output) >= 1
  /\ Len(augmented_model.node) = Len(original_graph.node) + 4

(* C2: after augment_graph the graph that was passed in still has exactly the nodes   *)
(* and outputs it had before the call, so every later stage of main that reads it     *)
(* (calculate_quantization_params among them) sees the unaugmented graph.             *)
C2_InputGraphUnchanged ==
  pc # "loaded" => model = original_graph

AggregateFailed == pc = "error" /\ ~quantization_thresholds.given

AggregateReturned == pc \in {"aggregated", "done"} \/ (pc = "error" /\ quantization_thresholds.given)

(* C3: when get_intermediate_outputs raises the configuration error for a calib_mode  *)
(* other than 'naive', no session.run call has happened before it is raised.          *)
C3_ModeErrorBeforeInference ==
  (calib_mode # "naive" /\ AggregateFailed /\ error = "ValueError") =>
     Len(intermediate_outputs) = 0

ExpectedStatistics ==
  [t \in {original_graph.node[i].output[1] : i \in Eligible(original_graph.node)} |->
     <<SeqMin([s \in 1..Len(inputs) |-> inputs[s][t][1]]),
       SeqMax([s \in 1..Len(inputs) |-> inputs[s][t][2]])>>]

(* C4: in naive mode on a non-empty dataset, get_intermediate_outputs returns one     *)
(* entry per eligible node, keyed by the node's output name, holding the minimum over *)
(* the samples of its ReduceMin probe and the maximum over the samples of its         *)
(* ReduceMax probe, whatever the number of outputs the original graph declares.       *)
C4_NaiveStatistics ==
  (/\ calib_mode = "naive" /\ Len(inputs) >= 1
   /\ Len(model_file.output) = Len(original_graph.output)
   /\ (AggregateReturned \/ AggregateFailed)) =>
     (AggregateReturned /\ final_dict = ExpectedStatistics)

(* C5: every returned quantization parameter has scale > 0 and 0 <= zero_point <= 255 *)
C5_ScalePositiveZeroPointInRange ==
  pc = "returned" =>
     /\ zp_and_scale[2][1] * zp_and_scale[2][2] > 0
     /\ zp_and_scale[1] \in 0..255

(* C6: the range from which scale and zero_point are derived contains zero, whatever  *)
(* the next node is                                                                   *)
C6_ZeroInclusion ==
  pc = "returned" =>
     LET r == AdjustedRange(next_node, rmin, rmax)
     IN  r[1] <= 0 /\ 0 <= r[2]

NotActivation == next_node.op_type # "Clip" /\ next_node.op_type # "Relu"

(* C7 as stated: observed min = max with a next node that is neither Clip nor Relu    *)
(* gives scale = 1.0 and zero_point = 0                                               *)
C7_DegenerateGivesScaleOne ==
  (pc = "returned" /\ rmin = rmax /\ NotActivation) => zp_and_scale = <<0, <<1, 1>>>>

(* C7 amended: observed min = max = v with a next node that is neither Clip nor Relu: *)
(* the range is first widened to include zero, so scale = 1.0 with zero_point = 0     *)
(* only for v = 0; for v > 0 (v = 2.0 in the scenario) scale = v/255 and              *)
(* zero_point = 0, and for v < 0 scale = -v/255 and zero_point = 255.                 *)
C7_DegenerateAfterZeroWidening ==
  (pc = "returned" /\ rmin = rmax /\ NotActivation) =>
     zp_and_scale = IF rmin = 0 THEN <<0, <<1, 1>>>>
                    ELSE IF rmin > 0 THEN <<0, <<rmin, 255>>>>
                    ELSE <<255, <<0 - rmin, 255>>>>

(* C7 witness: the scenario min = max = 2 before an ordinary node has been computed *)
C7_Witness ==
  pc = "returned" /\ rmin = 2 /\ rmax = 2 /\ next_node.op_type = "Add"

Range(s) == {s[i] : i \in 1..Len(s)}

(* C8: the names of the added probe nodes are pairwise distinct and differ from every *)
(* node name already in the graph, and the names of the added probe outputs are       *)
(* pairwise distinct and differ from every tensor name already in the graph.          *)
C8_ProbeNamesUnique ==
  pc = "augmented" =>
    LET o == original_graph
        addedN == (Len(o.node) + 1)..Len(augmented_model.node)
        addedO == (Len(o.output) + 1)..Len(augmented_model.output)
        oldNodeNames == {o.node[i].name : i \in 1..Len(o.node)}
        oldTensors == Range(o.output) \cup
                      UNION {Range(o.node[i].output) \cup Range(o.node[i].input) : i \in 1..Len(o.node)}
    IN  /\ \A i, j \in addedN : i # j => augmented_model.node[i].name # augmented_model.node[j].name
        /\ \A i \in addedN : augmented_model.node[i].name \notin oldNodeNames
        /\ \A i, j \in addedO : i # j => augmented_model.output[i] # augmented_model.output[j]
        /\ \A i \in addedO : augmented_model.output[i] \notin oldTensors

AttrNamed(node, nm) == (CHOOSE i \in 1..Len(node.attribute) : node.attribute[i].name = nm)

(* C9: before a Clip with constant bounds the range used is the zero-widened observed *)
(* range tightened to the Clip's min and max bounds, whatever the order in which the  *)
(* two attributes are stored; observed [-2, 10] before Clip [0, 6] gives scale 6/255  *)
(* and zero_point 0.                                                                  *)
C9_ClipTightensToBounds ==
  (pc \in {"returned", "error"} /\ next_node.op_type = "Clip" /\ Len(next_node.attribute) = 2) =>
     LET clip_min == next_node.attribute[AttrNamed(next_node, "min")].f
         clip_max == next_node.attribute[AttrNamed(next_node, "max")].f
         r == <<Max2(Min2(rmin, 0), clip_min), Min2(Max2(rmax, 0), clip_max)>>
     IN  /\ pc = "returned"
         /\ AdjustedRange(next_node, rmin, rmax) = r
         /\ zp_and_scale = <<ZeroPoint(r[1], ScaleOf(r)), ScaleOf(r)>>
         /\ (rmin = -2 /\ rmax = 10 /\ clip_min = 0 /\ clip_max = 6
               => zp_and_scale = <<0, <<6, 255>>>>)

(* C10: for nbits = 8 and any graph and statistics map calculate_quantization_params  *)
(* returns, and the keys of its result are exactly the first-output names of the      *)
(* nodes that have an entry in the statistics map, wherever those nodes sit.          *)
C10_EntryForEveryMatchedNode ==
  (pc # "call" /\ nbits = 8 /\ quantization_thresholds.given) =>
     /\ pc = "returned"
     /\ DOMAIN quantization_params =
          {model.node[i].output[1] : i \in 1..Len(model.node)} \cap DOMAIN quantization_thresholds.map

====
